---- MODULE Spec2Model ----
(***************************************************************************)
(* A model of biji-mcp: knowledge-base name resolution and configuration   *)
(* loading (src/src/biji_mcp/config.py) and the API client with its        *)
(* stream decoder (src/src/biji_mcp/client.py).                            *)
(*                                                                         *)
(* Text is modelled as a sequence of one-character strings, so that        *)
(* substring containment and concatenation are computed, not assumed.      *)
(* A Python Optional is [some |-> FALSE] or [some |-> TRUE, v |-> value].  *)
(* A JSON value is a record tagged by its field t; each type keeps its     *)
(* payload under a field of its own (n, s, a or f).                        *)
(***************************************************************************)
EXTENDS Integers, Sequences, FiniteSets, TLC

VARIABLES
    mode,            \* which entry point this behaviour exercises
    config,          \* find_knowledge_base: the Config object passed in
    reqName,         \* find_knowledge_base: the name argument (Optional[str])
    matches,         \* find_knowledge_base: the local list `matches` (line 136)
    resolved,        \* find_knowledge_base: what the call produced
    op,              \* client: the operation called, "recall" or "search"
    wire,            \* client: what the remote end answers to the request
    cpc,             \* client: position of the call (start, stream, done)
    pos,             \* client: lines of the response body consumed so far
    answer_parts,    \* search: the local list answer_parts
    thinking_parts,  \* search: the local list thinking_parts
    references,      \* search: the local list references
    fault,           \* client: the httpx exception the transport raised, "" if none
    out,             \* client: what the call produced
    fs,              \* load_config: the directory and the file at config_path
    seen,            \* load_config: the file the last call found at config_path
    nloads,          \* load_config: calls made so far
    origin,          \* load_config: the file at config_path before the first call
    loadOut,         \* load_config: what the last call produced
    srv,             \* server: "none" before create_server, then "live" or "crashed"
    srvConfig,       \* server: the closure variable `config` of create_server
    ncalls,          \* server: calls of call_tool made so far
    call,            \* server: name and arguments of the last call_tool
    lookup,          \* server: what find_knowledge_base produced in the last call
    request,         \* server: the remote request the last call issued, if any
    raised,          \* server: the exception the last call caught, if any
    reply            \* server: what the last call_tool produced

resolveVars == <<config, reqName, matches, resolved>>
clientVars ==
    <<op, wire, cpc, pos, answer_parts, thinking_parts, references, fault, out>>
loadVars == <<fs, seen, nloads, origin, loadOut>>
serverVars == <<srv, srvConfig, ncalls, call, lookup, request, raised, reply>>
vars == <<mode, resolveVars, clientVars, loadVars, serverVars>>

\* ------------------------------------------------------------------ bounds
MaxKB == 2           \* knowledge bases per configuration
MaxLines == 3        \* lines of a streamed response body
MaxLoads == 2        \* calls of load_config in one behaviour
MaxCalls == 2        \* calls of call_tool in one behaviour

\* ------------------------------------------------------------ Python values
None == [some |-> FALSE]
Some(x) == [some |-> TRUE, v |-> x]

Pending == [kind |-> "pending"]
Return(x) == [kind |-> "return", value |-> x]
Raise(e, m) == [kind |-> "raise", exc |-> e, msg |-> m]
\* an exception whose text plays no part
RaiseExc(e) == [kind |-> "raise", exc |-> e]

\* str.__contains__: `s in t` for two strings
Contains(s, t) ==
    \E i \in 0..(Len(t) - Len(s)) : SubSeq(t, i + 1, i + Len(s)) = s

\* sep.join(parts)
RECURSIVE Join(_, _)
Join(sep, parts) ==
    IF parts = <<>> THEN <<>>
    ELSE IF Len(parts) = 1 THEN parts[1]
    ELSE parts[1] \o sep \o Join(sep, Tail(parts))

\* the variables of an entry point that a behaviour does not exercise
IdleResolve ==
    /\ config = [knowledge_bases |-> <<>>]
    /\ reqName = None
    /\ matches = None
    /\ resolved = Pending

IdleClient ==
    /\ op = "none"
    /\ wire = [status |-> 0]
    /\ cpc = "idle"
    /\ pos = 0
    /\ answer_parts = <<>>
    /\ thinking_parts = <<>>
    /\ references = <<>>
    /\ fault = ""
    /\ out = Pending

IdleLoad ==
    /\ fs = [dir |-> FALSE, file |-> [exists |-> FALSE]]
    /\ seen = [exists |-> FALSE]
    /\ nloads = 0
    /\ origin = [exists |-> FALSE]
    /\ loadOut = Pending

IdleServer ==
    /\ srv = "none"
    /\ srvConfig = None
    /\ ncalls = 0
    /\ call = [name |-> ""]
    /\ lookup = Pending
    /\ request = None
    /\ raised = None
    /\ reply = Pending

\* ------------------------------------------------- config.py: the data model
\* the defaults of Settings
DEFAULT_TOP_K == 10
DEFAULT_TIMEOUT == 30

\* KnowledgeBase(token, topic_id, description)
KnowledgeBase(token, topic_id, description) ==
    [token |-> token, topic_id |-> topic_id, description |-> description]

\* Settings(default_top_k=10, timeout=30)
Settings(default_top_k, timeout) ==
    [default_top_k |-> default_top_k, timeout |-> timeout]

\* Config: knowledge_bases is a dict, an insertion-ordered list of unique
\* names, modelled as a sequence of [name, kb] without repeated names.
Config(knowledge_bases, default, settings) ==
    [knowledge_bases |-> knowledge_bases, default |-> default, settings |-> settings]

\* dict.keys(), in insertion order
Keys(d) == [i \in 1..Len(d) |-> d[i].name]

\* `name in d`
HasKey(d, name) == \E i \in 1..Len(d) : d[i].name = name

\* d[name], for a key of d
Lookup(d, name) == d[CHOOSE i \in 1..Len(d) : d[i].name = name].kb

\* ------------------------------------------- config.py: find_knowledge_base
COMMA == <<",", " ">>
\* the fixed fragments of the two messages of lines 147 and 151
AMBIG_1 == <<"kb-name '">>
AMBIG_2 == <<"' matches several: ">>
AMBIG_3 == <<", give a more exact name">>
NOTFOUND_1 == <<"kb not found '">>
NOTFOUND_2 == <<"', available: ">>

\* line 136-140: the (kb_name, kb) items whose name contains `name`, in dict order
RECURSIVE FuzzyMatchesFrom(_, _, _)
FuzzyMatchesFrom(d, name, i) ==
    IF i > Len(d) THEN <<>>
    ELSE (IF Contains(name, d[i].name) THEN <<d[i]>> ELSE <<>>)
         \o FuzzyMatchesFrom(d, name, i + 1)

FuzzyMatches(c, name) == FuzzyMatchesFrom(c.knowledge_bases, name, 1)

\* lines 128-129: name = config.default when name is None
EffectiveName(c, n) == IF n.some THEN n.v ELSE c.default

find_knowledge_base_fuzzy_first(c, n) ==
    LET name == EffectiveName(c, n)
        m == FuzzyMatches(c, name)
    IN  IF Len(m) = 1 THEN Return(<<m[1].name, m[1].kb>>)
        ELSE IF Len(m) > 1
        THEN Raise("ConfigError", AMBIG_1 \o name \o AMBIG_2 \o Join(COMMA, Keys(m)) \o AMBIG_3)
        ELSE IF HasKey(c.knowledge_bases, name)
        THEN Return(<<name, Lookup(c.knowledge_bases, name)>>)
        ELSE Raise("ConfigError", NOTFOUND_1 \o name \o NOTFOUND_2
                                   \o Join(COMMA, Keys(c.knowledge_bases)))

find_knowledge_base_first_match(c, n) ==
    LET name == EffectiveName(c, n)
        m == FuzzyMatches(c, name)
    IN  IF HasKey(c.knowledge_bases, name)
        THEN Return(<<name, Lookup(c.knowledge_bases, name)>>)
        ELSE IF Len(m) >= 1 THEN Return(<<m[1].name, m[1].kb>>)
        ELSE Raise("ConfigError", NOTFOUND_1 \o name \o NOTFOUND_2
                                   \o Join(COMMA, Keys(c.knowledge_bases)))

find_knowledge_base(c, n) ==
    LET name == EffectiveName(c, n)
        m == FuzzyMatches(c, name)
    IN  IF HasKey(c.knowledge_bases, name)
        THEN Return(<<name, Lookup(c.knowledge_bases, name)>>)
        ELSE IF Len(m) = 1 THEN Return(<<m[1].name, m[1].kb>>)
        ELSE IF Len(m) > 1
        THEN Raise("ConfigError", AMBIG_1 \o name \o AMBIG_2 \o Join(COMMA, Keys(m)) \o AMBIG_3)
        ELSE Raise("ConfigError", NOTFOUND_1 \o name \o NOTFOUND_2
                                   \o Join(COMMA, Keys(c.knowledge_bases)))

\* the local `matches` after the call: computed only past the exact lookup
MatchesLocal(c, n) ==
    IF HasKey(c.knowledge_bases, EffectiveName(c, n))
    THEN None
    ELSE Some(FuzzyMatches(c, EffectiveName(c, n)))

\* ----------------------------------------------------- inputs of the lookup
\* configured names: some contain others, so exact and fuzzy matches overlap
KBNames == { <<"a">>, <<"a", "b">>, <<"b", "a">>, <<"a", "b", "a">>, <<"c">> }
\* requested names: configured ones, the empty string, and unknown ones
ReqNames == KBNames \cup { <<>>, <<"b">>, <<"d">> }

KBOf(name) == KnowledgeBase(<<"t">> \o name, <<"k">> \o name, None)

NoRepeat(s) == \A i, j \in 1..Len(s) : i # j => s[i] # s[j]

NameLists == UNION { { s \in [1..n -> KBNames] : NoRepeat(s) } : n \in 1..MaxKB }

KBDict(names) == [i \in 1..Len(names) |-> [name |-> names[i], kb |-> KBOf(names[i])]]

Configs ==
    { Config(KBDict(ns), d, Settings(DEFAULT_TOP_K, DEFAULT_TIMEOUT)) : ns \in NameLists, d \in KBNames }

InitResolve ==
    /\ mode = "resolve"
    /\ config \in Configs
    /\ reqName \in {None} \cup { Some(n) : n \in ReqNames }
    /\ matches = None
    /\ resolved = Pending
    /\ IdleClient
    /\ IdleLoad
    /\ IdleServer

\* one call find_knowledge_base(config, name)
FindKnowledgeBase ==
    /\ mode = "resolve"
    /\ resolved = Pending
    /\ resolved' = find_knowledge_base(config, reqName)
    /\ matches' = MatchesLocal(config, reqName)
    /\ UNCHANGED <<mode, serverVars, config, reqName, clientVars, loadVars>>

NextResolve == FindKnowledgeBase

SpecResolve == InitResolve /\ [][NextResolve]_vars

\* ---------------------------------------------- properties of the lookup
\* the name the lookup works with, and the configured dict
ReqEffective == IF reqName.some THEN reqName.v ELSE config.default
ConfiguredKBs == config.knowledge_bases
\* the positions of the configured names that contain the requested name
FuzzySet == { i \in 1..Len(ConfiguredKBs) : Contains(ReqEffective, ConfiguredKBs[i].name) }
IsConfigured == \E i \in 1..Len(ConfiguredKBs) : ConfiguredKBs[i].name = ReqEffective
\* the names at the positions of S, in configuration order
RECURSIVE NamesAt(_, _)
NamesAt(S, i) ==
    IF i > Len(ConfiguredKBs) THEN <<>>
    ELSE (IF i \in S THEN <<ConfiguredKBs[i].name>> ELSE <<>>) \o NamesAt(S, i + 1)

\* C1: when the requested name (the default when absent) is a key of the
\* mapping, find_knowledge_base returns exactly (name, its entry) and does not
\* raise, however many configured names contain it; the fuzzy list is
\* computed only when the exact lookup missed.
C1_ExactMatchWins ==
    resolved # Pending =>
        /\ IsConfigured =>
              /\ resolved.kind = "return"
              /\ \E i \in 1..Len(ConfiguredKBs) :
                    /\ ConfiguredKBs[i].name = ReqEffective
                    /\ resolved.value = <<ReqEffective, ConfiguredKBs[i].kb>>
        /\ matches.some => ~IsConfigured

\* C1 witness: an exact hit on a name that two configured names contain,
\* reached through the default (name absent)
C1_Witness ==
    /\ resolved.kind = "return"
    /\ ~reqName.some
    /\ IsConfigured
    /\ Cardinality(FuzzySet) >= 2

\* C2: when the requested name is not a key, the outcome is decided by the set
\* M of configured names containing it: one name returns it with its entry,
\* two or more raise the ambiguity error listing every name of M, none raises
\* the not-found error listing every configured name.
C2_FuzzyOutcome ==
    (resolved # Pending /\ ~IsConfigured) =>
        /\ Cardinality(FuzzySet) = 1 =>
              \E i \in FuzzySet :
                  resolved = Return(<<ConfiguredKBs[i].name, ConfiguredKBs[i].kb>>)
        /\ Cardinality(FuzzySet) >= 2 =>
              resolved = Raise("ConfigError",
                  AMBIG_1 \o ReqEffective \o AMBIG_2
                  \o Join(COMMA, NamesAt(FuzzySet, 1)) \o AMBIG_3)
        /\ Cardinality(FuzzySet) = 0 =>
              resolved = Raise("ConfigError",
                  NOTFOUND_1 \o ReqEffective \o NOTFOUND_2
                  \o Join(COMMA, NamesAt(1..Len(ConfiguredKBs), 1)))

\* C2 witness: an inexact name that two configured names contain was refused
C2_Witness ==
    /\ resolved.kind = "raise"
    /\ ~IsConfigured
    /\ Cardinality(FuzzySet) >= 2

\* ------------------------------------------------------------ JSON values
JNull == [t |-> "null"]
JNum(n) == [t |-> "num", n |-> n]
JStr(x) == [t |-> "str", s |-> x]
JArr(x) == [t |-> "arr", a |-> x]
\* an object holds exactly the keys of DOMAIN fields
JObj(fields) == [t |-> "obj", f |-> fields]
EmptyFields == [k \in {} |-> JNull]

\* d.get(key, default) on a dict
DictGet(d, key, default) == IF key \in DOMAIN d.f THEN d.f[key] ELSE default

\* `key in container`: dict keys, list elements, substring of a str; the
\* other JSON types are not iterable (TypeError)
PyIn(key, container) ==
    IF container.t = "obj" THEN Return(key \in DOMAIN container.f)
    ELSE IF container.t = "arr"
    THEN Return(\E i \in 1..Len(container.a) : container.a[i] = JStr(<<key>>))
    ELSE IF container.t = "str" THEN Return(Contains(<<key>>, container.s))
    ELSE RaiseExc("TypeError")

\* container[key] with a str key: defined for a dict that has the key only
Subscript(container, key) ==
    IF container.t = "obj"
    THEN (IF key \in DOMAIN container.f THEN Return(container.f[key])
          ELSE RaiseExc("KeyError"))
    ELSE RaiseExc("TypeError")

\* "".join(parts): every part must be a str
StrJoin(parts) ==
    IF \A i \in 1..Len(parts) : parts[i].t = "str"
    THEN Return(Join(<<>>, [i \in 1..Len(parts) |-> parts[i].s]))
    ELSE RaiseExc("TypeError")

\* ------------------------------------------------- client.py: the data model
BijiAPIError(status_code, message) ==
    [kind |-> "raise", exc |-> "BijiAPIError", status_code |-> status_code,
     message |-> message]

\* RecallResult.from_api(data), data a dict
RecallResult_from_api(data) ==
    [id |-> DictGet(data, "id", JStr(<<>>)),
     title |-> DictGet(data, "title", JStr(<<>>)),
     content |-> DictGet(data, "content", JStr(<<>>)),
     score |-> DictGet(data, "score", JNum(0)),
     type |-> DictGet(data, "type", JStr(<<"NOTE">>)),
     recall_source |-> DictGet(data, "recall_source", JStr(<<>>))]

\* Reference.from_api(data), data a dict
Reference_from_api(data) ==
    [title |-> DictGet(data, "title", JStr(<<>>)),
     content |-> DictGet(data, "content", JStr(<<>>))]

SearchResult(answer, refs, thinking) ==
    [answer |-> answer, references |-> refs, thinking |-> thinking]

\* ------------------------------------------------ client.py: the transport
\* the fixed messages of lines 93, 95, 98 and 100
TIMEOUT_MSG == <<"request timed out, retry later">>
NETWORK_MSG == <<"network error: ">>
TOKEN_MSG == <<"invalid token, check the configuration">>
RATE_MSG == <<"over the API call limit (QPS=2), retry later">>

\* A response body is bytes: `valid` says whether they are well-formed UTF-8,
\* `text` is what the well-formed part decodes to, `doc` the JSON document
\* the text parses to, if it parses.
Body(valid, text, doc) == [valid |-> valid, text |-> text, doc |-> doc]
REPLACEMENT == <<"U+FFFD">>

\* response.text (line 102): httpx decodes leniently and never raises
ResponseText(b) == IF b.valid THEN b.text ELSE b.text \o REPLACEMENT

\* content.decode() (line 169): strict UTF-8
BytesDecode(b) ==
    IF b.valid THEN Return(b.text) ELSE RaiseExc("UnicodeDecodeError")

\* response.json() (line 104)
ResponseJson(b) ==
    IF b.valid /\ b.doc.some THEN Return(b.doc.v) ELSE RaiseExc("JSONDecodeError")

\* the exceptions httpx raises for a failed transport
Faults == {"TimeoutException", "RequestError"}

\* lines 92-95 and 174-177: both handlers map a transport failure to code 0
TransportError_delivers_fragments(e) ==
    [kind |-> "return",
     value |-> [answer |-> answer_parts, references |-> references,
                thinking |-> [some |-> FALSE]]]

TransportError(e) ==
    IF e = "TimeoutException" THEN BijiAPIError(0, TIMEOUT_MSG)
    ELSE BijiAPIError(0, NETWORK_MSG \o <<e>>)

\* lines 97-109 of _post: the response has arrived
BijiClient_post(w) ==
    IF w.status = 401 THEN BijiAPIError(401, TOKEN_MSG)
    ELSE IF w.status = 429 THEN BijiAPIError(429, RATE_MSG)
    ELSE IF w.status >= 400 THEN BijiAPIError(w.status, ResponseText(w.body))
    ELSE ResponseJson(w.body)

\* lines 163-169 of _stream_post: the response head has arrived; Pending
\* stands for falling through to the line loop of line 171
BijiClient_stream_post_status(w) ==
    IF w.status = 401 THEN BijiAPIError(401, TOKEN_MSG)
    ELSE IF w.status = 429 THEN BijiAPIError(429, RATE_MSG)
    ELSE IF w.status >= 400
    THEN (LET content == BytesDecode(w.body)
          IN  IF content.kind = "raise" THEN content
              ELSE BijiAPIError(w.status, content.value))
    ELSE Pending

\* ------------------------------------------------------ client.py: recall
\* lines 144-145: one record per element of results
RecallItems(results) ==
    IF results.t = "arr"
    THEN (IF \A i \in 1..Len(results.a) : results.a[i].t = "obj"
          THEN Return([i \in 1..Len(results.a) |-> RecallResult_from_api(results.a[i])])
          ELSE RaiseExc("AttributeError"))
    ELSE IF results.t = "obj"
    THEN (IF DOMAIN results.f = {} THEN Return(<<>>) ELSE RaiseExc("AttributeError"))
    ELSE IF results.t = "str"
    THEN (IF results.s = <<>> THEN Return(<<>>) ELSE RaiseExc("AttributeError"))
    ELSE RaiseExc("TypeError")

\* lines 142-147, response being what _post returned
RecallDecode(response) ==
    LET hasData == PyIn("data", response)
    IN  IF hasData.kind = "raise" THEN hasData
        ELSE IF ~hasData.value THEN Return(<<>>)
        ELSE LET data == Subscript(response, "data")
             IN  IF data.kind = "raise" THEN data
                 ELSE LET hasResults == PyIn("results", data.value)
                      IN  IF hasResults.kind = "raise" THEN hasResults
                          ELSE IF ~hasResults.value THEN Return(<<>>)
                          ELSE LET results == Subscript(data.value, "results")
                               IN  IF results.kind = "raise" THEN results
                                   ELSE RecallItems(results.value)

\* lines 140-147: recall once _post has a response
BijiClient_recall(w) ==
    LET response == BijiClient_post(w)
    IN  IF response.kind = "raise" THEN response ELSE RecallDecode(response.value)

\* ------------------------------------------------------ client.py: search
\* A line of the streamed body: `pre` is its first characters up to and
\* including the first blank (at most six), `rest` what follows.
DATA_PREFIX == "data: "
Line(pre, rest) == [pre |-> pre, rest |-> rest]
NoText == [k |-> "empty"]
Garbage == [k |-> "garbage"]
JsonText(val) == [k |-> "json", val |-> val]

\* `if line:` of line 172
IsEmptyLine(line) == line.pre = "" /\ line.rest = NoText

\* line.startswith("data: ") of line 210
StartsWithData_prefix_without_blank(line) == line.pre \in {"data: ", "data:"}
StartsWithData(line) == line.pre = DATA_PREFIX

\* json.loads(line[6:]) of line 214
JsonLoads(rest) ==
    IF rest.k = "json" THEN Return(rest.val) ELSE RaiseExc("JSONDecodeError")

\* msg_type == n
MsgTypeIs(msg_type, n) == msg_type.t = "num" /\ msg_type.n = n

\* lines 236-238: the citations of one batch
RefsOf(refs_data) ==
    IF refs_data.t = "arr"
    THEN (IF \A i \in 1..Len(refs_data.a) : refs_data.a[i].t = "obj"
          THEN Return([i \in 1..Len(refs_data.a) |-> Reference_from_api(refs_data.a[i])])
          ELSE RaiseExc("AttributeError"))
    ELSE IF refs_data.t = "obj"
    THEN (IF DOMAIN refs_data.f = {} THEN Return(<<>>) ELSE RaiseExc("AttributeError"))
    ELSE IF refs_data.t = "str"
    THEN (IF refs_data.s = <<>> THEN Return(<<>>) ELSE RaiseExc("AttributeError"))
    ELSE RaiseExc("TypeError")

\* what one pass through the loop body leaves
Step(ctl, ap, tp, refs, exc) ==
    [ctl |-> ctl, answer_parts |-> ap, thinking_parts |-> tp, references |-> refs,
     exc |-> exc]

\* the handling of msg_type 3 (lines 242-246)
OnComplete_keeps_reading(ap, tp, refs) == Step("continue", ap, tp, refs, "")
OnComplete(ap, tp, refs) == Step("break", ap, tp, refs, "")

\* the handling of msg_type 21 (lines 227-232)
OnThinking(data, ap, tp, refs) ==
    Step("continue", ap, Append(tp, DictGet(data, "content", JStr(<<>>))), refs, "")

\* lines 210-246: the loop body for one line the generator yielded
SearchLoopBody(line, ap, tp, refs) ==
    IF ~StartsWithData(line) THEN Step("continue", ap, tp, refs, "")
    ELSE LET parsed == JsonLoads(line.rest)
         IN  IF parsed.kind = "raise" THEN Step("continue", ap, tp, refs, "")
             ELSE LET data == parsed.value
                  IN  IF data.t # "obj" THEN Step("raise", ap, tp, refs, "AttributeError")
                      ELSE LET msg_type == DictGet(data, "msg_type", JNull)
                           IN  IF MsgTypeIs(msg_type, 1)
                               THEN Step("continue",
                                         Append(ap, DictGet(data, "content", JStr(<<>>))),
                                         tp, refs, "")
                               ELSE IF MsgTypeIs(msg_type, 21)
                               THEN OnThinking(data, ap, tp, refs)
                               ELSE IF MsgTypeIs(msg_type, 105)
                               THEN (LET r == RefsOf(DictGet(data, "refs", JArr(<<>>)))
                                     IN  IF r.kind = "raise"
                                         THEN Step("raise", ap, tp, refs, r.exc)
                                         ELSE Step("continue", ap, tp, refs \o r.value, ""))
                               ELSE IF MsgTypeIs(msg_type, 3)
                               THEN OnComplete(ap, tp, refs)
                               ELSE Step("continue", ap, tp, refs, "")

\* lines 248-252: the value search returns
SearchReturn_thinking_always_text(ap, tp, refs) ==
    LET answer == StrJoin(ap)
        thinking == StrJoin(tp)
    IN  IF answer.kind = "raise" THEN answer
        ELSE IF thinking.kind = "raise" THEN thinking
        ELSE Return(SearchResult(answer.value, refs, Some(thinking.value)))

SearchReturn(ap, tp, refs) ==
    LET answer == StrJoin(ap)
        thinking == StrJoin(tp)
    IN  IF answer.kind = "raise" THEN answer
        ELSE IF tp = <<>> THEN Return(SearchResult(answer.value, refs, None))
        ELSE IF thinking.kind = "raise" THEN thinking
        ELSE Return(SearchResult(answer.value, refs, Some(thinking.value)))

\* ----------------------------------------------------- inputs of the client
Obj1(k1, v1) == JObj([k \in {k1} |-> v1])
Obj2(k1, v1, k2, v2) == JObj([k \in {k1, k2} |-> IF k = k1 THEN v1 ELSE v2])
Obj3(k1, v1, k2, v2, k3, v3) ==
    JObj([k \in {k1, k2, k3} |-> IF k = k1 THEN v1 ELSE IF k = k2 THEN v2 ELSE v3])

DataLine(val) == Line(DATA_PREFIX, JsonText(val))
Txt(c) == JStr(<<c>>)

BatchTU == JArr(<<Obj2("title", Txt("T"), "content", Txt("C")), Obj1("title", Txt("U"))>>)
BatchV == JArr(<<Obj2("title", Txt("V"), "content", Txt("D"))>>)

\* lines the decoder skips
SkippedLines ==
    { Line("", NoText),                                                  \* blank keep-alive
      Line("data:", JsonText(Obj2("msg_type", JNum(1), "content", Txt("X")))),  \* no blank
      Line(DATA_PREFIX, Garbage),                                        \* not JSON
      DataLine(Obj3("msg_type", JNum(7), "content", Txt("Y"), "refs", BatchV)),
      DataLine(Obj1("content", Txt("Z"))) }                              \* no msg_type

\* the four events of section 4.3
EventLines ==
    { DataLine(Obj2("msg_type", JNum(1), "content", Txt("A"))),
      DataLine(Obj2("msg_type", JNum(1), "content", Txt("B"))),
      DataLine(Obj1("msg_type", JNum(1))),
      DataLine(Obj2("msg_type", JNum(21), "content", Txt("T"))),
      DataLine(Obj2("msg_type", JNum(21), "content", JStr(<<>>))),
      DataLine(Obj2("msg_type", JNum(105), "refs", BatchTU)),
      DataLine(Obj2("msg_type", JNum(105), "refs", BatchV)),
      DataLine(Obj1("msg_type", JNum(3))) }

\* valid JSON that is not shaped as an event
MisshapenLines ==
    { DataLine(JNull),
      DataLine(Obj2("msg_type", JNum(1), "content", JNull)),
      DataLine(Obj2("msg_type", JNum(105), "refs", JArr(<<JNum(5)>>))) }

StreamLines == SkippedLines \cup EventLines \cup MisshapenLines

Streams == UNION { [1..n -> StreamLines] : n \in 0..MaxLines }

NoBody == Body(TRUE, <<>>, None)
\* the body of an error response: text, or bytes that are not UTF-8
ErrorBodies == { Body(TRUE, <<"o", "o", "p", "s">>, None), Body(FALSE, <<"o">>, None) }

Item1 ==
    JObj([k \in {"id", "title", "content", "score", "type", "recall_source"} |->
            IF k = "id" THEN Txt("n1") ELSE IF k = "title" THEN Txt("t1")
            ELSE IF k = "content" THEN Txt("c1") ELSE IF k = "score" THEN JNum(9)
            ELSE IF k = "type" THEN Txt("FILE") ELSE Txt("keyword")])
Item2 == Obj1("title", Txt("t2"))
Item3 == JObj(EmptyFields)

ResultLists ==
    { JArr(<<>>), JArr(<<Item1>>), JArr(<<Item1, Item2>>), JArr(<<Item2, Item1>>),
      JArr(<<Item3, Item1, Item2>>) }

\* the JSON documents a recall response may carry
RecallDocs ==
    { Obj1("data", Obj1("results", r)) : r \in ResultLists }
    \cup { Obj2("code", JNum(0), "data", Obj1("results", r)) : r \in ResultLists }
    \cup { JObj(EmptyFields), Obj1("code", JNum(0)), Obj1("data", JObj(EmptyFields)),
           Obj1("data", Obj1("total", JNum(0))),
           Obj1("data", JArr(<<>>)), Obj1("data", JNull), Obj1("data", Txt("results")),
           Obj1("data", Obj1("results", JNull)),
           Obj1("data", Obj1("results", JArr(<<JNum(5)>>))),
           Obj1("data", Obj1("results", Obj1("n1", Item1))),
           JNull, JArr(<<>>), JNum(0) }

RecallBodies ==
    { Body(TRUE, <<"j">>, Some(d)) : d \in RecallDocs }
    \cup { Body(TRUE, <<"h", "t", "m", "l">>, None) }

SuccessStatuses == {200, 399}
ErrorStatuses == {400, 401, 429, 500}

Wire(status, body, lines) == [status |-> status, body |-> body, lines |-> lines]

SearchWires ==
    { Wire(200, NoBody, ls) : ls \in Streams }
    \cup { Wire(st, b, ls) : st \in ErrorStatuses \cup {399}, b \in ErrorBodies,
                             ls \in { l \in Streams : Len(l) <= 1 } }

RecallWires ==
    { Wire(st, b, <<>>) : st \in SuccessStatuses, b \in RecallBodies }
    \cup { Wire(st, b, <<>>) : st \in ErrorStatuses, b \in ErrorBodies \cup RecallBodies }

InitClient ==
    /\ mode = "client"
    /\ IdleResolve
    /\ IdleLoad
    /\ IdleServer
    /\ \/ op = "search" /\ wire \in SearchWires
       \/ op = "recall" /\ wire \in RecallWires
    /\ cpc = "start"
    /\ pos = 0
    /\ answer_parts = <<>>
    /\ thinking_parts = <<>>
    /\ references = <<>>
    /\ fault = ""
    /\ out = Pending

\* --------------------------------------------------- actions of the client
\* recall: client.post raises (lines 92-95)
PostFault ==
    /\ mode = "client" /\ op = "recall" /\ cpc = "start"
    /\ \E f \in Faults :
          /\ fault' = f
          /\ out' = TransportError(f)
    /\ cpc' = "done"
    /\ UNCHANGED <<mode, serverVars, resolveVars, loadVars, op, wire, pos, answer_parts, thinking_parts, references>>

\* recall: client.post returns a response (lines 97-109, then 142-147)
PostResponse ==
    /\ mode = "client" /\ op = "recall" /\ cpc = "start"
    /\ out' = BijiClient_recall(wire)
    /\ cpc' = "done"
    /\ UNCHANGED <<mode, serverVars, resolveVars, loadVars, op, wire, pos, answer_parts, thinking_parts,
                   references, fault>>

\* search: the transport raises inside the try of line 161, while connecting,
\* while reading an error body, or while reading the next line
StreamFault ==
    /\ mode = "client" /\ op = "search" /\ cpc \in {"start", "stream"}
    /\ \E f \in Faults :
          /\ fault' = f
          /\ out' = TransportError(f)
    /\ cpc' = "done"
    /\ UNCHANGED <<mode, serverVars, resolveVars, loadVars, op, wire, pos, answer_parts, thinking_parts, references>>

\* search: the response head arrives (lines 162-169)
StreamOpen ==
    /\ mode = "client" /\ op = "search" /\ cpc = "start"
    /\ LET r == BijiClient_stream_post_status(wire)
       IN  IF r = Pending
           THEN cpc' = "stream" /\ out' = out
           ELSE cpc' = "done" /\ out' = r
    /\ UNCHANGED <<mode, serverVars, resolveVars, loadVars, op, wire, pos, answer_parts, thinking_parts,
                   references, fault>>

\* search: the next line of the body is read (lines 171-173) and, unless it
\* is empty, handed to the loop body (lines 209-246); a break or the
\* exception of the loop body ends the call (lines 248-252)
StreamLine ==
    /\ mode = "client" /\ op = "search" /\ cpc = "stream"
    /\ pos < Len(wire.lines)
    /\ pos' = pos + 1
    /\ LET line == wire.lines[pos + 1]
           st == SearchLoopBody(line, answer_parts, thinking_parts, references)
       IN  IF IsEmptyLine(line)
           THEN UNCHANGED <<cpc, answer_parts, thinking_parts, references, out>>
           ELSE /\ answer_parts' = st.answer_parts
                /\ thinking_parts' = st.thinking_parts
                /\ references' = st.references
                /\ cpc' = IF st.ctl = "continue" THEN "stream" ELSE "done"
                /\ out' = IF st.ctl = "continue" THEN out
                          ELSE IF st.ctl = "raise" THEN RaiseExc(st.exc)
                          ELSE SearchReturn(st.answer_parts, st.thinking_parts, st.references)
    /\ UNCHANGED <<mode, serverVars, resolveVars, loadVars, op, wire, fault>>

\* search: the body is exhausted, the loop ends (lines 248-252)
StreamEnd ==
    /\ mode = "client" /\ op = "search" /\ cpc = "stream"
    /\ pos = Len(wire.lines)
    /\ out' = SearchReturn(answer_parts, thinking_parts, references)
    /\ cpc' = "done"
    /\ UNCHANGED <<mode, serverVars, resolveVars, loadVars, op, wire, pos, answer_parts, thinking_parts,
                   references, fault>>

NextClient ==
    \/ PostFault
    \/ PostResponse
    \/ StreamFault
    \/ StreamOpen
    \/ StreamLine
    \/ StreamEnd

SpecClient == InitClient /\ [][NextClient]_vars

\* ---------------------------------------------- properties of the client
Searching == mode = "client" /\ op = "search"
Recalling == mode = "client" /\ op = "recall"
Returned == out.kind = "return"
ApiFailed == out.kind = "raise" /\ out.exc = "BijiAPIError"
OtherFailed == out.kind = "raise" /\ out.exc # "BijiAPIError"

\* a line whose payload is a JSON document behind the prefix "data: "
IsJsonData(l) == l.pre = "data: " /\ l.rest.k = "json"
IsObjectData(l) == IsJsonData(l) /\ l.rest.val.t = "obj"
HasField(l, key) == key \in DOMAIN l.rest.val.f
\* an event of msg_type n
IsEvent(l, n) ==
    /\ IsObjectData(l)
    /\ HasField(l, "msg_type")
    /\ l.rest.val.f["msg_type"] = [t |-> "num", n |-> n]
Recognized(l) == \E n \in {1, 21, 105, 3} : IsEvent(l, n)
\* the lines C3 calls skipped: no prefix, no JSON, another msg_type (or none)
IsSkipped(l) ==
    \/ l.pre # "data: "
    \/ l.rest.k # "json"
    \/ IsObjectData(l) /\ ~Recognized(l)
\* the text an event carries in `content`, the empty text when it has none
TextOf(l) ==
    IF ~HasField(l, "content") THEN <<>>
    ELSE IF l.rest.val.f["content"].t = "str" THEN l.rest.val.f["content"].s
    ELSE <<"not a str">>
\* the citation an element of `refs` stands for
FieldOr(o, key, default) == IF key \in DOMAIN o.f THEN o.f[key] ELSE default
CitationOf(o) ==
    [title |-> FieldOr(o, "title", [t |-> "str", s |-> <<>>]),
     content |-> FieldOr(o, "content", [t |-> "str", s |-> <<>>])]
CitationsOf(l) ==
    IF ~HasField(l, "refs") THEN <<>>
    ELSE LET r == l.rest.val.f["refs"]
         IN  IF r.t = "arr" THEN [i \in 1..Len(r.a) |-> CitationOf(r.a[i])] ELSE <<>>
\* a payload that is JSON but carries a non-object, a content that is not a
\* str, or refs that are not a list of objects
IsMisshapen(l) ==
    /\ IsJsonData(l)
    /\ \/ ~IsObjectData(l)
       \/ /\ IsEvent(l, 1) \/ IsEvent(l, 21)
          /\ HasField(l, "content")
          /\ l.rest.val.f["content"].t # "str"
       \/ /\ IsEvent(l, 105)
          /\ HasField(l, "refs")
          /\ LET r == l.rest.val.f["refs"]
             IN  \/ r.t # "arr"
                 \/ \E i \in 1..Len(r.a) : r.a[i].t # "obj"

\* the concatenated text of the msg_type n events among lines i..upto
RECURSIVE EventText(_, _, _)
EventText(n, i, upto) ==
    IF i > upto THEN <<>>
    ELSE (IF IsEvent(wire.lines[i], n) THEN TextOf(wire.lines[i]) ELSE <<>>)
         \o EventText(n, i + 1, upto)
\* the citations of the msg_type 105 events among lines i..upto
RECURSIVE EventCitations(_, _)
EventCitations(i, upto) ==
    IF i > upto THEN <<>>
    ELSE (IF IsEvent(wire.lines[i], 105) THEN CitationsOf(wire.lines[i]) ELSE <<>>)
         \o EventCitations(i + 1, upto)

\* C3: the returned outcome of search is a function of the recognized events
\* only. answer is the concatenation, in arrival order, of the content of the
\* msg_type 1 events decoded, references the citations of the msg_type 105
\* batches in arrival order; decoding ran to the end of the stream or to a
\* msg_type 3 event; lines without the prefix, with a payload that is not
\* JSON, or with another msg_type change nothing and raise nothing (an
\* exception of the decoder is always owed to a misshapen JSON payload).
C3_OutcomeFromEvents ==
    Searching =>
        /\ Returned =>
              /\ out.value.answer = EventText(1, 1, pos)
              /\ out.value.references = EventCitations(1, pos)
              /\ pos = Len(wire.lines) \/ IsEvent(wire.lines[pos], 3)
        /\ OtherFailed /\ wire.status < 400 =>
              \E i \in 1..pos : IsMisshapen(wire.lines[i])

\* C3 witness: a returned outcome with answer text and citations from a
\* stream that also held a skipped, non-empty line
C3_Witness ==
    /\ Searching /\ Returned
    /\ out.value.answer # <<>>
    /\ out.value.references # <<>>
    /\ \E i \in 1..pos : IsSkipped(wire.lines[i]) /\ ~IsEmptyLine(wire.lines[i])

\* C4: in a returned outcome thinking is None exactly when no msg_type 21
\* event was decoded; otherwise it is the concatenation of their content, the
\* empty text included.
C4_ThinkingPresence ==
    (Searching /\ Returned) =>
        LET arrived == { i \in 1..pos : IsEvent(wire.lines[i], 21) }
        IN  /\ (out.value.thinking = [some |-> FALSE]) <=> (arrived = {})
            /\ arrived # {} =>
                  out.value.thinking = [some |-> TRUE, v |-> EventText(21, 1, pos)]

\* C4 witness: reasoning events arrived, all of them empty
C4_Witness ==
    /\ Searching /\ Returned
    /\ \E i \in 1..pos : IsEvent(wire.lines[i], 21)
    /\ out.value.thinking = [some |-> TRUE, v |-> <<>>]

\* C5: once a msg_type 3 event is decoded the call is over: it is the last
\* line ever read, and the outcome is made of the lines before it only.
C5_CompleteTerminates ==
    Searching =>
        \A k \in 1..pos :
            IsEvent(wire.lines[k], 3) =>
                /\ pos = k
                /\ cpc = "done"
                /\ Returned =>
                      /\ out.value.answer = EventText(1, 1, k - 1)
                      /\ out.value.references = EventCitations(1, k - 1)
                      /\ out.value.thinking \in
                            {[some |-> FALSE], [some |-> TRUE, v |-> EventText(21, 1, k - 1)]}

\* C5 witness: the outcome was returned at a msg_type 3 event that is
\* followed by a recognized event
C5_Witness ==
    /\ Searching /\ Returned
    /\ pos < Len(wire.lines)
    /\ IsEvent(wire.lines[pos], 3)
    /\ \E j \in (pos + 1)..Len(wire.lines) :
          \E n \in {1, 21, 105} : IsEvent(wire.lines[j], n)

NothingDecoded ==
    pos = 0 /\ answer_parts = <<>> /\ thinking_parts = <<>> /\ references = <<>>

\* C6: for recall and for search alike, a failed request ends in ApiError:
\* code 0 for a timeout or another transport failure, 401 and 429 with their
\* fixed messages, any other status >= 400 with that status as code and the
\* response body as message, nothing of the payload being decoded; only a
\* status below 400 goes on to decoding.
C6_FailureClassification ==
    (mode = "client" /\ cpc = "done") =>
        IF fault = "TimeoutException"
        THEN ApiFailed /\ out.status_code = 0 /\ out.message = TIMEOUT_MSG
        ELSE IF fault # ""
        THEN ApiFailed /\ out.status_code = 0
        ELSE IF wire.status = 401
        THEN ApiFailed /\ out.status_code = 401 /\ out.message = TOKEN_MSG /\ NothingDecoded
        ELSE IF wire.status = 429
        THEN ApiFailed /\ out.status_code = 429 /\ out.message = RATE_MSG /\ NothingDecoded
        ELSE IF wire.status >= 400
        THEN /\ ApiFailed
             /\ out.status_code = wire.status
             /\ wire.body.valid => out.message = wire.body.text
             /\ NothingDecoded
        ELSE ~ApiFailed

\* C6, error bodies that are well-formed UTF-8 only: the classification holds
C6_WellFormedBodies ==
    (mode = "client" /\ wire.body.valid) => C6_FailureClassification

\* the JSON document of the recall response
RecallDoc == wire.body.doc.v
HasResultsArray ==
    /\ RecallDoc.t = "obj"
    /\ "data" \in DOMAIN RecallDoc.f
    /\ RecallDoc.f["data"].t = "obj"
    /\ "results" \in DOMAIN RecallDoc.f["data"].f
    /\ RecallDoc.f["data"].f["results"].t = "arr"
ResultsArray == RecallDoc.f["data"].f["results"].a
RecordOf(o) ==
    [id |-> FieldOr(o, "id", [t |-> "str", s |-> <<>>]),
     title |-> FieldOr(o, "title", [t |-> "str", s |-> <<>>]),
     content |-> FieldOr(o, "content", [t |-> "str", s |-> <<>>]),
     score |-> FieldOr(o, "score", [t |-> "num", n |-> 0]),
     type |-> FieldOr(o, "type", [t |-> "str", s |-> <<"NOTE">>]),
     recall_source |-> FieldOr(o, "recall_source", [t |-> "str", s |-> <<>>])]

\* C7: a success-status response to recall whose body is a JSON object that
\* holds a data.results array yields one record per element, in order,
\* absent fields defaulted; any other shape of data or results yields the
\* empty sequence, and nothing is raised.
C7_RecallDecoding ==
    (/\ Recalling /\ cpc = "done" /\ fault = "" /\ wire.status < 400
     /\ wire.body.doc.some /\ RecallDoc.t = "obj") =>
        /\ Returned
        /\ IF HasResultsArray
           THEN /\ Len(out.value) = Len(ResultsArray)
                /\ \A i \in 1..Len(ResultsArray) :
                      ResultsArray[i].t = "obj" => out.value[i] = RecordOf(ResultsArray[i])
           ELSE out.value = <<>>

\* C7, data absent or an object, results absent or a list of objects: holds
C7_ExpectedShapes ==
    (/\ Recalling /\ wire.body.doc.some
     /\ RecallDoc.t = "obj"
     /\ "data" \in DOMAIN RecallDoc.f =>
           /\ RecallDoc.f["data"].t \in {"obj", "arr"}
           /\ RecallDoc.f["data"].t = "obj" /\ "results" \in DOMAIN RecallDoc.f["data"].f =>
                 /\ HasResultsArray
                 /\ \A i \in 1..Len(ResultsArray) : ResultsArray[i].t = "obj")
    => C7_RecallDecoding

C15_EndOfStreamReturns ==
    /\ Searching /\ Returned
    /\ pos = Len(wire.lines) /\ pos > 0
    /\ \A i \in 1..pos : ~IsEvent(wire.lines[i], 3)
    /\ out.value.answer # <<>>

\* C16: on a success-status stream whose "data: " lines all carry valid JSON,
\* of whatever shape, search never raises because of a line: the call,
\* unless the transport fails, ends in a returned outcome.
C16_ContentNeverRaises ==
    (/\ Searching /\ cpc = "done" /\ fault = "" /\ wire.status < 400
     /\ \A i \in 1..Len(wire.lines) :
           wire.lines[i].pre = "data: " => wire.lines[i].rest.k = "json")
    => Returned

\* C16, payloads shaped as events only (objects; content a str; refs a list
\* of objects): holds, also with lines that are not JSON at all
C16_EventShapedPayloads ==
    (Searching /\ \A i \in 1..Len(wire.lines) : ~IsMisshapen(wire.lines[i]))
    => ((cpc = "done" /\ fault = "" /\ wire.status < 400) => Returned)

\* ---------------------------------------------- config.py: load_config
\* A JSON object keyed by knowledge-base names (texts) keeps its entries in
\* document order, as the dict json.loads builds does.
JMap(entries) == [t |-> "map", m |-> entries]
Entry(name, val) == [name |-> name, val |-> val]

\* the file at config_path: absent, or bytes that are well-formed UTF-8 or
\* not, holding a JSON document or not
NoFile == [exists |-> FALSE]
File(valid, doc) == [exists |-> TRUE, valid |-> valid, doc |-> doc]

\* lines 44-57
EXAMPLE_CONFIG ==
    Obj3("knowledge_bases",
            JMap(<<Entry(<<"work">>,
                         Obj3("token", Txt("your-api-token-here"),
                              "topic_id", Txt("your-topic-id-here"),
                              "description", Txt("work notes")))>>),
         "default", Txt("work"),
         "settings", Obj2("default_top_k", JNum(DEFAULT_TOP_K), "timeout", JNum(DEFAULT_TIMEOUT)))

\* the messages of lines 85-88, 93, 98 and 103-105
CREATED_MSG == <<"config file missing, example config created; edit it">>
FORMAT_MSG == <<"config file format error">>
VALIDATION_MSG == <<"config validation failed">>
DEFAULT_1 == <<"default kb '">>
DEFAULT_2 == <<"' does not exist, available: ">>

\* json.dumps(doc, ensure_ascii=False, indent=2) written as UTF-8 (lines 81-84)
JsonDumps(doc) == File(TRUE, Some(doc))

\* config_path.read_text(encoding="utf-8") (line 91): strict UTF-8
ReadText(file) ==
    IF file.valid THEN Return(file.doc) ELSE RaiseExc("UnicodeDecodeError")

\* json.loads(text) (line 91)
JsonLoadsText(text) ==
    IF text.some THEN Return(text.v) ELSE RaiseExc("JSONDecodeError")

\* KnowledgeBase(**v): token and topic_id are required str, description is an
\* optional str; no further constraint is declared (lines 24-28)
ValidKB(v) ==
    /\ v.t = "obj"
    /\ "token" \in DOMAIN v.f /\ v.f["token"].t = "str"
    /\ "topic_id" \in DOMAIN v.f /\ v.f["topic_id"].t = "str"
    /\ "description" \in DOMAIN v.f => v.f["description"].t \in {"str", "null"}

ToKB(v) ==
    KnowledgeBase(v.f["token"].s, v.f["topic_id"].s,
                  IF "description" \in DOMAIN v.f /\ v.f["description"].t = "str"
                  THEN Some(v.f["description"].s) ELSE None)

\* Settings(**v): two int fields with defaults (lines 31-34)
ValidSettings(v) ==
    /\ v.t = "obj"
    /\ \A k \in {"default_top_k", "timeout"} : k \in DOMAIN v.f => v.f[k].t = "num"

ToSettings(v) ==
    Settings(IF "default_top_k" \in DOMAIN v.f THEN v.f["default_top_k"].n ELSE DEFAULT_TOP_K,
             IF "timeout" \in DOMAIN v.f THEN v.f["timeout"].n ELSE DEFAULT_TIMEOUT)

\* the fields of Config (lines 37-41)
ValidConfigFields(data) ==
    /\ "knowledge_bases" \in DOMAIN data.f
    /\ data.f["knowledge_bases"].t = "map"
    /\ \A i \in 1..Len(data.f["knowledge_bases"].m) : ValidKB(data.f["knowledge_bases"].m[i].val)
    /\ "default" \in DOMAIN data.f /\ data.f["default"].t = "str"
    /\ "settings" \in DOMAIN data.f => ValidSettings(data.f["settings"])

\* Config(**config_data) (line 96)
Config_validate(data) ==
    IF data.t # "obj" THEN RaiseExc("TypeError")
    ELSE IF ~ValidConfigFields(data) THEN RaiseExc("ValidationError")
    ELSE LET m == data.f["knowledge_bases"].m
         IN  Return(Config([i \in 1..Len(m) |-> [name |-> m[i].name, kb |-> ToKB(m[i].val)]],
                           data.f["default"].s,
                           IF "settings" \in DOMAIN data.f THEN ToSettings(data.f["settings"])
                           ELSE Settings(DEFAULT_TOP_K, DEFAULT_TIMEOUT)))

\* lines 90-108: the file exists
LoadExisting(f) ==
    LET text == ReadText(f.file)
    IN  IF text.kind = "raise" THEN [fs |-> f, out |-> text]
        ELSE LET data == JsonLoadsText(text.value)
             IN  IF data.kind = "raise"
                 THEN [fs |-> f, out |-> Raise("ConfigError", FORMAT_MSG)]
                 ELSE LET c == Config_validate(data.value)
                      IN  IF c.kind = "raise"
                          THEN [fs |-> f, out |-> Raise("ConfigError", VALIDATION_MSG)]
                          ELSE IF ~HasKey(c.value.knowledge_bases, c.value.default)
                          THEN [fs |-> f,
                                out |-> Raise("ConfigError",
                                              DEFAULT_1 \o c.value.default \o DEFAULT_2
                                              \o Join(COMMA, Keys(c.value.knowledge_bases)))]
                          ELSE [fs |-> f, out |-> Return(c.value)]

load_config_proceeds_with_template(f) ==
    IF ~f.file.exists
    THEN LoadExisting([dir |-> TRUE, file |-> JsonDumps(EXAMPLE_CONFIG)])
    ELSE LoadExisting(f)

\* lines 73-108: the outcome of the call and the file system it leaves
load_config(f) ==
    IF ~f.file.exists
    THEN [fs |-> [dir |-> TRUE, file |-> JsonDumps(EXAMPLE_CONFIG)],
          out |-> Raise("ConfigError", CREATED_MSG)]
    ELSE LoadExisting(f)

\* --------------------------------------------------- inputs of load_config
DocNames == { <<"a">>, <<"a", "b">> }

KBDocs ==
    { Obj2("token", Txt("t1"), "topic_id", Txt("k1")),
      Obj3("token", Txt("t2"), "topic_id", Txt("k2"), "description", Txt("d")),
      Obj2("token", JStr(<<>>), "topic_id", Txt("k3")),
      Obj2("token", Txt("t4"), "topic_id", JStr(<<>>)),
      Obj1("topic_id", Txt("k5")),
      Obj2("token", Txt("t6"), "topic_id", JNull) }

EntryLists ==
    UNION { { e \in [1..n -> { Entry(nm, kb) : nm \in DocNames, kb \in KBDocs }] :
                \A i, j \in 1..n : i # j => e[i].name # e[j].name } : n \in 0..MaxKB }

DefaultDocs == { JStr(n) : n \in DocNames } \cup { Txt("c"), JNull }

SettingsDoc == Obj2("default_top_k", JNum(5), "timeout", JNum(9))

ConfigDocs ==
    { Obj2("knowledge_bases", JMap(e), "default", d) : e \in EntryLists, d \in DefaultDocs }
    \cup { Obj3("knowledge_bases", JMap(e), "default", d, "settings", SettingsDoc) :
              e \in EntryLists, d \in DefaultDocs }
    \cup { Obj1("knowledge_bases", JMap(e)) : e \in EntryLists }
    \cup { Obj1("default", JStr(n)) : n \in DocNames }
    \cup { Obj2("knowledge_bases", JNull, "default", JStr(n)) : n \in DocNames }
    \cup { JObj(EmptyFields), JNull, JArr(<<>>), EXAMPLE_CONFIG }

Files ==
    { File(TRUE, Some(d)) : d \in ConfigDocs }
    \cup { File(TRUE, None), File(FALSE, None) }

InitLoad ==
    /\ mode = "load"
    /\ IdleResolve
    /\ IdleClient
    /\ IdleServer
    /\ \/ fs \in { [dir |-> TRUE, file |-> f] : f \in Files }
       \/ fs \in { [dir |-> d, file |-> NoFile] : d \in BOOLEAN }
    /\ seen = NoFile
    /\ nloads = 0
    /\ origin = fs.file
    /\ loadOut = Pending

\* one call load_config(config_path)
LoadConfig ==
    /\ mode = "load"
    /\ nloads < MaxLoads
    /\ LET r == load_config(fs)
       IN  /\ fs' = r.fs
           /\ loadOut' = r.out
    /\ seen' = fs.file
    /\ nloads' = nloads + 1
    /\ UNCHANGED <<mode, serverVars, origin, resolveVars, clientVars>>

NextLoad == LoadConfig

SpecLoad == InitLoad /\ [][NextLoad]_vars

\* -------------------------------------------- properties of load_config
Loaded == mode = "load" /\ loadOut.kind = "return"
LoadFailed == mode = "load" /\ loadOut.kind = "raise"
ConfigFailed == LoadFailed /\ loadOut.exc = "ConfigError"

\* C8: a call that finds no file at the location leaves the template there,
\* in an existing directory, and fails with ConfigError; it returns nothing.
C8_MissingCreatesTemplate ==
    (mode = "load" /\ nloads > 0 /\ ~seen.exists) =>
        /\ ConfigFailed
        /\ loadOut.msg = CREATED_MSG
        /\ fs.dir
        /\ fs.file.exists
        /\ fs.file = [exists |-> TRUE, valid |-> TRUE,
                      doc |-> [some |-> TRUE, v |-> EXAMPLE_CONFIG]]

\* C8 witness: the first call found no file, failed, and the file is there
C8_Witness ==
    /\ mode = "load" /\ nloads = 1 /\ ~seen.exists
    /\ ConfigFailed
    /\ fs.file.exists

\* what C9 and C10 ask of the document of an accepted file
DocOf(file) == file.doc.v
KBsOf(file) == DocOf(file).f["knowledge_bases"].m
KBWellTyped(v) ==
    /\ v.t = "obj"
    /\ \A k \in {"token", "topic_id"} : k \in DOMAIN v.f /\ v.f[k].t = "str"
    /\ "description" \in DOMAIN v.f => v.f["description"].t \in {"str", "null"}
SchemaValid(file) ==
    /\ DocOf(file).t = "obj"
    /\ {"knowledge_bases", "default"} \subseteq DOMAIN DocOf(file).f
    /\ DocOf(file).f["knowledge_bases"].t = "map"
    /\ \A i \in 1..Len(KBsOf(file)) : KBWellTyped(KBsOf(file)[i].val)
    /\ DocOf(file).f["default"].t = "str"
    /\ "settings" \in DOMAIN DocOf(file).f =>
          /\ DocOf(file).f["settings"].t = "obj"
          /\ \A k \in DOMAIN DocOf(file).f["settings"].f :
                DocOf(file).f["settings"].f[k].t = "num"
Acceptable(file) ==
    /\ file.exists
    /\ file.valid /\ file.doc.some
    /\ SchemaValid(file)
    /\ \E i \in 1..Len(KBsOf(file)) : KBsOf(file)[i].name = DocOf(file).f["default"].s

\* C9: load_config returns a configuration only for a file that exists,
\* parses as JSON, is schema-valid and names a configured default; in every
\* other case it fails with ConfigError; a returned configuration has its
\* default among its names.
C9_LoadOnlyValid ==
    (mode = "load" /\ nloads > 0) =>
        /\ Loaded => Acceptable(seen)
        /\ ~Acceptable(seen) => ConfigFailed
        /\ Loaded => \E i \in 1..Len(loadOut.value.knowledge_bases) :
                        loadOut.value.knowledge_bases[i].name = loadOut.value.default

\* C9, files that are well-formed UTF-8 only: holds
C9_WellFormedFiles ==
    (mode = "load" /\ (seen.exists => seen.valid)) => C9_LoadOnlyValid

\* C10: every knowledge base of a returned configuration has a non-empty
\* token and a non-empty topic_id.
C10_NonEmptyCredentials ==
    Loaded =>
        \A i \in 1..Len(loadOut.value.knowledge_bases) :
            /\ loadOut.value.knowledge_bases[i].kb.token # <<>>
            /\ loadOut.value.knowledge_bases[i].kb.topic_id # <<>>

\* C17: starting from an absent file, no call of load_config ever returns a
\* configuration when nobody edits the file between the calls: the template
\* the first call wrote is not accepted, every call fails as the first did.
C17_TemplateNeverAccepted ==
    (mode = "load" /\ ~origin.exists /\ nloads > 0) =>
        /\ ~Loaded
        /\ ConfigFailed /\ loadOut.msg = CREATED_MSG

\* C17, the first call only: it fails and returns nothing
C17_FirstCallFails ==
    (mode = "load" /\ ~origin.exists /\ nloads = 1) =>
        (ConfigFailed /\ loadOut.msg = CREATED_MSG)

\* ------------------------------------------------ client.py: a whole call
\* How the remote end behaves during one call: the answer `wire`, and the
\* httpx exception `e` ("" for none) that strikes once `at` lines were read.
Remote(w, e, at) == [wire |-> w, e |-> e, at |-> at]

\* what a call leaves: its outcome and the lines of the body it consumed
Ran(o, n) == [out |-> o, pos |-> n]

\* lines 209-252 driven by the generator of lines 171-173, from line i + 1 on
RECURSIVE SearchFrom(_, _, _, _, _)
SearchFrom(r, i, ap, tp, refs) ==
    IF r.e # "" /\ r.at = i THEN Ran(TransportError(r.e), i)
    ELSE IF i = Len(r.wire.lines) THEN Ran(SearchReturn(ap, tp, refs), i)
    ELSE LET line == r.wire.lines[i + 1]
             st == SearchLoopBody(line, ap, tp, refs)
         IN  IF IsEmptyLine(line) THEN SearchFrom(r, i + 1, ap, tp, refs)
             ELSE IF st.ctl = "continue"
             THEN SearchFrom(r, i + 1, st.answer_parts, st.thinking_parts, st.references)
             ELSE IF st.ctl = "raise" THEN Ran(RaiseExc(st.exc), i + 1)
             ELSE Ran(SearchReturn(st.answer_parts, st.thinking_parts, st.references), i + 1)

\* lines 179-252: one call of search
BijiClient_search(r) ==
    IF r.e # "" /\ r.at = 0 THEN Ran(TransportError(r.e), 0)
    ELSE LET head == BijiClient_stream_post_status(r.wire)
         IN  IF head # Pending THEN Ran(head, 0)
             ELSE SearchFrom(r, 0, <<>>, <<>>, <<>>)

\* lines 111-147: one call of recall
BijiClient_recall_call(r) ==
    IF r.e # "" THEN Ran(TransportError(r.e), 0) ELSE Ran(BijiClient_recall(r.wire), 0)

\* the call as a whole produces what the steps of the client produce
SearchCallAgrees ==
    (Searching /\ cpc = "done") =>
        BijiClient_search(Remote(wire, fault, pos)) = Ran(out, pos)
RecallCallAgrees ==
    (Recalling /\ cpc = "done") =>
        BijiClient_recall_call(Remote(wire, fault, 0)) = Ran(out, 0)

\* ------------------------------------------------------------- tools.py
NL == <<"\n">>
ANSWER_HEADER == <<"## answer\n">>
REFS_HEADER == <<"## references\n">>
THINKING_HEADER == <<"## reasoning\n">>
NO_RESULTS == <<"## recall results (0)\n\nnothing found.">>
\* lines 46-48: the three lines above the rows
KB_TABLE_HEAD ==
    << <<"## configured knowledge bases\n">>,
       <<"| name | description | default |">>,
       <<"|------|------|------|">> >>
\* ref.content[:100] of line 33
TRUNCATE == 100

\* str(v) as an f-string renders a value
PyStr(v) ==
    IF v.t = "str" THEN v.s
    ELSE IF v.t = "num" THEN <<ToString(v.n)>>
    ELSE IF v.t = "null" THEN <<"None">>
    ELSE <<"repr of ", v.t>>

\* truthiness of an Optional[str]: None and "" are false
Truthy(x) == x.some /\ x.v # <<>>

\* v[:100] and len(v) need a sequence
Sliceable(v) == v.t \in {"str", "arr"}

\* line 33: one numbered citation
RefLine(i, ref) ==
    LET content == PyStr(ref.content)
    IN  <<ToString(i), ". **">> \o PyStr(ref.title) \o <<"** - \"">>
        \o SubSeq(content, 1, IF Len(content) < TRUNCATE THEN Len(content) ELSE TRUNCATE)
        \o (IF Len(content) > TRUNCATE THEN <<"...">> ELSE <<>>) \o <<"\"">>

\* lines 36-39: the reasoning section
ThinkingSection(result) ==
    IF Truthy(result.thinking) THEN <<THINKING_HEADER, result.thinking.v, <<>>>> ELSE <<>>

\* lines 24-41
format_search_result(result) ==
    LET refs == result.references
    IN  IF \E i \in 1..Len(refs) : ~Sliceable(refs[i].content)
        THEN RaiseExc("TypeError")
        ELSE Return(Join(NL,
                 <<ANSWER_HEADER, result.answer, <<>>>>
                 \o (IF refs # <<>>
                     THEN <<REFS_HEADER>> \o [i \in 1..Len(refs) |-> RefLine(i, refs[i])]
                          \o << <<>> >>
                     ELSE <<>>)
                 \o ThinkingSection(result)))

\* lines 16-19: the three lines of one result
RECURSIVE RecallLines(_, _)
RecallLines(results, i) ==
    IF i > Len(results) THEN <<>>
    ELSE << <<"### ", ToString(i), ". ">> \o PyStr(results[i].title) \o <<" [">>
            \o PyStr(results[i].type) \o <<"] score: ", ToString(results[i].score.n), ".00">>,
            results[i].content.s,
            <<>> >>
         \o RecallLines(results, i + 1)

\* lines 9-21
format_recall_results(results) ==
    IF results = <<>> THEN Return(NO_RESULTS)
    ELSE IF \E i \in 1..Len(results) : results[i].score.t = "str"
    THEN RaiseExc("ValueError")
    ELSE IF \E i \in 1..Len(results) : results[i].score.t # "num" \/ results[i].content.t # "str"
    THEN RaiseExc("TypeError")
    ELSE Return(Join(NL,
             << <<"## recall results (", ToString(Len(results)), ")\n">> >>
             \o RecallLines(results, 1)))

\* lines 50-53: one table row per knowledge base
KBRow(c, i) ==
    LET e == c.knowledge_bases[i]
    IN  <<"| ">> \o e.name \o <<" | ">>
        \o (IF Truthy(e.kb.description) THEN e.kb.description.v ELSE <<"-">>)
        \o <<" | ">> \o (IF e.name = c.default THEN <<"yes">> ELSE <<>>) \o <<" |">>

\* lines 44-55
format_kb_list(c) ==
    Join(NL, KB_TABLE_HEAD
             \o [i \in 1..Len(c.knowledge_bases) |-> KBRow(c, i)])

\* ------------------------------------------------------------- server.py
JBool(b) == [t |-> "bool", b |-> b]
TextContent(text) == [type |-> "text", text |-> text]

\* the fixed texts of lines 114, 146, 151, 153 and 156
NOT_LOADED_MSG == <<"config not loaded, check ~/.biji-mcp/config.json">>
UNKNOWN_TOOL == <<"unknown tool: ">>
CONFIG_PREFIX == <<"config error: ">>
API_PREFIX == <<"API error: ">>
INTERNAL_PREFIX == <<"internal error: ">>

\* str(e): the message the exception was built with; BijiAPIError formats
\* "[status_code] message" (client.py:23)
ExcStr(x) ==
    IF x.exc = "BijiAPIError"
    THEN <<"[", ToString(x.status_code), "] ">> \o x.message
    ELSE IF "msg" \in DOMAIN x THEN x.msg
    ELSE <<x.exc>>

\* lines 150-156: the three except clauses
ErrorResponse_reraises_unexpected(x) ==
    IF x.exc = "ConfigError" THEN Return(<<TextContent(CONFIG_PREFIX \o ExcStr(x))>>)
    ELSE IF x.exc = "BijiAPIError" THEN Return(<<TextContent(API_PREFIX \o ExcStr(x))>>)
    ELSE x

ErrorResponse(x) ==
    IF x.exc = "ConfigError" THEN Return(<<TextContent(CONFIG_PREFIX \o ExcStr(x))>>)
    ELSE IF x.exc = "BijiAPIError" THEN Return(<<TextContent(API_PREFIX \o ExcStr(x))>>)
    ELSE Return(<<TextContent(INTERNAL_PREFIX \o ExcStr(x))>>)

\* what one call_tool leaves behind
Handled(rep, exc, found, req, o, w, e, n) ==
    [reply |-> rep, raised |-> exc, lookup |-> found, request |-> req,
     out |-> o, wire |-> w, fault |-> e, pos |-> n]

\* a call that ended in an except clause before any request was issued
FailedEarly(x, found) ==
    Handled(ErrorResponse(x), Some(x), found, None, Pending, [status |-> 0], "", 0)

\* a call that issued no request and returned `text`
Answered(text, found) ==
    Handled(Return(<<TextContent(text)>>), None, found, None, Pending, [status |-> 0], "", 0)

\* the request handed to httpx (client.py:80-91 and 151-162)
Request(endpoint, token, timeout, payload) ==
    [endpoint |-> endpoint, token |-> token, timeout |-> timeout, json |-> payload]

\* a call that issued `req`; `ran` is what the client call produced and
\* `text` the rendering of its value
AfterRequest(req, found, r, ran, text) ==
    IF ran.out.kind = "raise"
    THEN Handled(ErrorResponse(ran.out), Some(ran.out), found, Some(req),
                 ran.out, r.wire, r.e, ran.pos)
    ELSE IF text.kind = "raise"
    THEN Handled(ErrorResponse(text), Some(text), found, Some(req),
                 ran.out, r.wire, r.e, ran.pos)
    ELSE Handled(Return(<<TextContent(text.value)>>), None, found, Some(req),
                 ran.out, r.wire, r.e, ran.pos)

\* lines 121-122: arguments.get("kb") handed to find_knowledge_base; a name
\* that is not a str fails `name in kb_name` of config.py:139 (a loaded
\* configuration has at least one knowledge base)
FindKB(c, arguments) ==
    LET kb_name == DictGet(arguments, "kb", JNull)
    IN  IF kb_name.t = "null" THEN find_knowledge_base(c, None)
        ELSE IF kb_name.t = "str" THEN find_knowledge_base(c, Some(kb_name.s))
        ELSE RaiseExc("TypeError")

\* line 140: the top_k handed to recall
TopK(c, arguments) == DictGet(arguments, "top_k", JNum(c.settings.default_top_k))

\* lines 127-134
CallSearch(c, kb, arguments, found, r) ==
    LET question == Subscript(arguments, "question")
    IN  IF question.kind = "raise" THEN FailedEarly(question, found)
        ELSE LET req == Request("/knowledge/search/stream", kb.token, c.settings.timeout,
                            [question |-> question.value,
                             topic_ids |-> <<kb.topic_id>>,
                             deep_seek |-> DictGet(arguments, "deep_seek", JBool(FALSE)),
                             refs |-> DictGet(arguments, "with_refs", JBool(TRUE))])
                 ran == BijiClient_search(r)
             IN  AfterRequest(req, found, r, ran,
                     IF ran.out.kind = "return" THEN format_search_result(ran.out.value)
                     ELSE ran.out)

\* lines 136-143
CallRecall(c, kb, arguments, found, r) ==
    LET question == Subscript(arguments, "question")
    IN  IF question.kind = "raise" THEN FailedEarly(question, found)
        ELSE LET req == Request("/knowledge/search/recall", kb.token, c.settings.timeout,
                            [question |-> question.value,
                             topic_ids |-> <<kb.topic_id>>,
                             top_k |-> TopK(c, arguments),
                             intent_rewrite |-> DictGet(arguments, "intent_rewrite", JBool(FALSE)),
                             select_matrix |-> JBool(FALSE)])
                 ran == BijiClient_recall_call(r)
             IN  AfterRequest(req, found, r, ran,
                     IF ran.out.kind = "return" THEN format_recall_results(ran.out.value)
                     ELSE ran.out)

\* lines 109-156: cfg is the closure variable `config`, r the behaviour of
\* the remote end should the call reach it
call_tool(cfg, name, arguments, r) ==
    IF ~cfg.some THEN FailedEarly(Raise("ConfigError", NOT_LOADED_MSG), Pending)
    ELSE IF name = "biji_list_kb" THEN Answered(format_kb_list(cfg.v), Pending)
    ELSE LET found == FindKB(cfg.v, arguments)
         IN  IF found.kind = "raise" THEN FailedEarly(found, found)
             ELSE IF name = "biji_search"
             THEN CallSearch(cfg.v, found.value[2], arguments, found, r)
             ELSE IF name = "biji_recall"
             THEN CallRecall(cfg.v, found.value[2], arguments, found, r)
             ELSE Answered(UNKNOWN_TOOL \o <<name>>, found)

\* lines 27-37 and 158: what create_server leaves of load_config's outcome
create_server(loaded) ==
    IF loaded.kind = "return" THEN [srv |-> "live", config |-> Some(loaded.value)]
    ELSE IF loaded.exc = "ConfigError" THEN [srv |-> "live", config |-> None]
    ELSE [srv |-> "crashed", config |-> None]

\* ---------------------------------------------------- inputs of the server
\* the configuration files the server may start with
KBMapAB ==
    JMap(<<Entry(<<"a">>, Obj2("token", Txt("t1"), "topic_id", Txt("k1"))),
           Entry(<<"a", "b">>,
                 Obj3("token", Txt("t2"), "topic_id", Txt("k2"), "description", Txt("d")))>>)

ServerFiles ==
    { File(TRUE, Some(Obj2("knowledge_bases", KBMapAB, "default", JStr(<<"a">>)))),
      File(TRUE, Some(Obj3("knowledge_bases", KBMapAB, "default", JStr(<<"a", "b">>),
                           "settings", SettingsDoc))),
      File(TRUE, Some(Obj2("knowledge_bases", KBMapAB, "default", Txt("c")))),
      File(TRUE, None),
      File(FALSE, None) }

ToolNames == {"biji_search", "biji_recall", "biji_list_kb", "biji_other"}

\* an arguments mapping holding the keys whose value is given
ArgsOf(question, kb, top_k) ==
    JObj([k \in (IF question.some THEN {"question"} ELSE {})
                \cup (IF kb.some THEN {"kb"} ELSE {})
                \cup (IF top_k.some THEN {"top_k"} ELSE {}) |->
            IF k = "question" THEN question.v ELSE IF k = "kb" THEN kb.v ELSE top_k.v])

\* kb: absent, exact, contained in one name, in two, in none, not a str
KbArgs ==
    { None, Some(JStr(<<"a">>)), Some(JStr(<<"b">>)), Some(JStr(<<>>)), Some(Txt("d")),
      Some(JNum(5)) }

\* question absent or given; top_k, for recall, absent or given
ArgsFor(name) ==
    IF name = "biji_recall"
    THEN { ArgsOf(q, kb, tk) : q \in { None, Some(Txt("q")) }, kb \in KbArgs,
                               tk \in { None, Some(JNum(3)) } }
    ELSE { ArgsOf(q, kb, None) : q \in { None, Some(Txt("q")) }, kb \in KbArgs }

ServerLines ==
    { DataLine(Obj2("msg_type", JNum(1), "content", Txt("A"))),
      DataLine(Obj2("msg_type", JNum(21), "content", Txt("T"))),
      DataLine(Obj2("msg_type", JNum(21), "content", JStr(<<>>))),
      DataLine(Obj2("msg_type", JNum(105), "refs", BatchTU)),
      DataLine(Obj1("msg_type", JNum(3))),
      DataLine(JNull) }

ServerStreams ==
    { <<>> } \cup { <<a>> : a \in ServerLines } \cup { <<a, b>> : a, b \in ServerLines }

SearchRemotes ==
    { Remote(Wire(200, NoBody, ls), "", 0) : ls \in ServerStreams }
    \cup { Remote(Wire(st, b, <<>>), "", 0) : st \in {401, 500}, b \in ErrorBodies }
    \cup { Remote(Wire(200, NoBody,
                       <<DataLine(Obj2("msg_type", JNum(1), "content", Txt("A"))),
                         DataLine(Obj2("msg_type", JNum(21), "content", Txt("T")))>>),
                  e, at) : e \in Faults, at \in {0, 1} }

RecallRemotes ==
    { Remote(Wire(200, Body(TRUE, <<"j">>, Some(d)), <<>>), "", 0) :
          d \in { Obj1("data", Obj1("results", JArr(<<Item1, Item2>>))),
                  Obj1("data", Obj1("results", JArr(<<>>))),
                  Obj1("data", JNull) } }
    \cup { Remote(Wire(st, Body(TRUE, <<"o", "o", "p", "s">>, None), <<>>), "", 0) :
              st \in {401, 500} }
    \cup { Remote(Wire(200, NoBody, <<>>), "TimeoutException", 0) }

RemotesFor(name) ==
    IF name = "biji_search" THEN SearchRemotes
    ELSE IF name = "biji_recall" THEN RecallRemotes
    ELSE { Remote([status |-> 0], "", 0) }

InitServer ==
    /\ mode = "server"
    /\ IdleResolve
    /\ IdleClient
    /\ IdleServer
    /\ \/ fs \in { [dir |-> TRUE, file |-> f] : f \in ServerFiles }
       \/ fs = [dir |-> FALSE, file |-> NoFile]
    /\ seen = NoFile
    /\ nloads = 0
    /\ origin = fs.file
    /\ loadOut = Pending

\* --------------------------------------------------- actions of the server
\* create_server(): load_config() once, then the handlers are registered
CreateServer ==
    /\ mode = "server" /\ srv = "none"
    /\ LET r == load_config(fs)
           made == create_server(r.out)
       IN  /\ fs' = r.fs
           /\ loadOut' = r.out
           /\ srv' = made.srv
           /\ srvConfig' = made.config
    /\ seen' = fs.file
    /\ nloads' = nloads + 1
    /\ UNCHANGED <<mode, origin, ncalls, call, lookup, request, raised, reply,
                   resolveVars, clientVars>>

\* one call_tool(name, arguments), the remote end behaving as r
CallTool ==
    /\ mode = "server" /\ srv = "live"
    /\ ncalls < MaxCalls
    /\ \E name \in ToolNames :
          \E arguments \in ArgsFor(name), r \in RemotesFor(name) :
              LET h == call_tool(srvConfig, name, arguments, r)
              IN  /\ call' = [name |-> name, arguments |-> arguments]
                  /\ reply' = h.reply
                  /\ raised' = h.raised
                  /\ lookup' = h.lookup
                  /\ request' = h.request
                  /\ op' = IF ~h.request.some THEN "none"
                           ELSE IF name = "biji_search" THEN "search" ELSE "recall"
                  /\ wire' = h.wire
                  /\ fault' = h.fault
                  /\ pos' = h.pos
                  /\ out' = h.out
    /\ ncalls' = ncalls + 1
    /\ UNCHANGED <<mode, srv, srvConfig, resolveVars, loadVars, cpc, answer_parts,
                   thinking_parts, references>>

NextServer ==
    \/ CreateServer
    \/ CallTool

SpecServer == InitServer /\ [][NextServer]_vars

\* ---------------------------------------------- properties of the server
Called == mode = "server" /\ ncalls > 0
ReplyText == reply.value[1].text
HasPrefix(text, prefix) == Len(text) >= Len(prefix) /\ SubSeq(text, 1, Len(prefix)) = prefix
ArgGiven(key) == key \in DOMAIN call.arguments.f
NeedsQuestion == call.name \in {"biji_search", "biji_recall"}

\* C11: whatever the tool name, the arguments and the failure, call_tool
\* returns normally one text response and no exception leaves it: a failure
\* of the configuration (not loaded, knowledge base not resolved) is answered
\* with the configuration prefix, an ApiError of the client with the API
\* prefix, any other exception (a missing question, a kb that is not a str,
\* an exception of the decoder or of the rendering) with the internal prefix,
\* each followed by the text of the exception.
C11_FailuresBecomeText ==
    Called =>
        /\ reply.kind = "return"
        /\ Len(reply.value) = 1
        /\ reply.value[1].type = "text"
        /\ DOMAIN reply.value[1] = {"type", "text"}
        /\ ~srvConfig.some => HasPrefix(ReplyText, <<"config error: ">>)
        /\ (lookup.kind = "raise" /\ lookup.exc = "ConfigError") =>
              ReplyText = <<"config error: ">> \o lookup.msg
        /\ (lookup.kind = "raise" /\ lookup.exc # "ConfigError") =>
              HasPrefix(ReplyText, <<"internal error: ">>)
        /\ (lookup.kind = "return" /\ NeedsQuestion /\ ~ArgGiven("question")) =>
              /\ HasPrefix(ReplyText, <<"internal error: ">>)
              /\ ~request.some
        /\ (out.kind = "raise" /\ out.exc = "BijiAPIError") =>
              HasPrefix(ReplyText, <<"API error: ", "[", ToString(out.status_code), "] ">>)
        /\ (out.kind = "raise" /\ out.exc # "BijiAPIError") =>
              HasPrefix(ReplyText, <<"internal error: ">>)
        /\ raised.some =>
              \E prefix \in {<<"config error: ">>, <<"API error: ">>, <<"internal error: ">>} :
                  HasPrefix(ReplyText, prefix)

\* C11 witness: a search without the required question, on a loaded
\* configuration and a resolved knowledge base, answered with the internal
\* error text
C11_Witness ==
    /\ Called /\ call.name = "biji_search"
    /\ srvConfig.some /\ lookup.kind = "return"
    /\ ~ArgGiven("question")
    /\ raised.some /\ raised.v.exc = "KeyError"
    /\ reply.kind = "return"
    /\ HasPrefix(ReplyText, <<"internal error: ">>)

\* C11 witnesses of the other two categories
C11_ApiErrorAnswered ==
    /\ Called /\ out.kind = "raise" /\ out.exc = "BijiAPIError" /\ out.status_code = 500
    /\ reply.kind = "return" /\ HasPrefix(ReplyText, <<"API error: ">>)
C11_ConfigErrorAnswered ==
    /\ Called /\ lookup.kind = "raise" /\ lookup.exc = "ConfigError"
    /\ reply.kind = "return" /\ HasPrefix(ReplyText, <<"config error: ">>)

\* C12: when load_config failed at startup, create_server still returns a
\* live server, and every call of every tool with any arguments is answered
\* with the configuration-not-loaded text, no knowledge base being resolved
\* and no request being issued.
C12_LoadFailureDisablesTools ==
    (mode = "server" /\ srv # "none" /\ loadOut.kind = "raise") =>
        /\ srv = "live"
        /\ Called =>
              /\ reply = [kind |-> "return",
                          value |-> <<[type |-> "text",
                                       text |-> <<"config error: ">> \o NOT_LOADED_MSG]>>]
              /\ lookup = Pending
              /\ ~request.some
              /\ op = "none"

\* C12, load_config failing with ConfigError only: holds
C12_ConfigErrorFailures ==
    (mode = "server" /\ srv # "none" /\ loadOut.kind = "raise"
     /\ loadOut.exc = "ConfigError") => C12_LoadFailureDisablesTools

\* a search that returned an outcome, rendered by format_search_result
SearchRendered ==
    Called /\ call.name = "biji_search" /\ out.kind = "return" /\ ~raised.some
HasReasoningSection == Contains(<<"## reasoning\n">>, ReplyText)
ReasoningDecoded == \E i \in 1..pos : IsEvent(wire.lines[i], 21)

\* C13: the text rendered for a search outcome holds the reasoning section
\* exactly when the outcome's thinking is present, the empty text included:
\* exactly when at least one msg_type 21 event was decoded.
C13_ReasoningSectionOnPresence ==
    SearchRendered =>
        /\ HasReasoningSection <=> out.value.thinking.some
        /\ HasReasoningSection <=> ReasoningDecoded

\* C13, as the code renders: the section is there exactly when the reasoning
\* text is present and not empty; holds
C13_SectionOnNonEmptyText ==
    SearchRendered =>
        (HasReasoningSection <=>
            (out.value.thinking.some /\ out.value.thinking.v # <<>>))

\* C14: a recall request issued for a call without top_k carries top_k = 10,
\* whatever the loaded configuration; with top_k given it carries that value.
C14_RecallTopK ==
    (Called /\ call.name = "biji_recall" /\ request.some) =>
        request.v.json.top_k =
            IF ArgGiven("top_k") THEN call.arguments.f["top_k"]
            ELSE [t |-> "num", n |-> 10]

\* C14, as the code does: without top_k the request carries the
\* default_top_k of the loaded settings; holds
C14_ConfiguredTopK ==
    (Called /\ call.name = "biji_recall" /\ request.some) =>
        request.v.json.top_k =
            IF ArgGiven("top_k") THEN call.arguments.f["top_k"]
            ELSE [t |-> "num", n |-> srvConfig.v.settings.default_top_k]


====
